---- MODULE Spec2Model ----
(***************************************************************************)
(* docs/conf.py of XTools: the Sphinx build configuration.                 *)
(*                                                                         *)
(* The file is a Python script of eight assignment statements.  A loader   *)
(* executes it top to bottom against a namespace (a mapping from names to  *)
(* objects); the builder then reads the namespace.  The model keeps the    *)
(* namespace, the statements still to execute and the phase of the load.   *)
(*                                                                         *)
(* A Python str is modelled as the sequence of its characters, each        *)
(* character written as a one-character string; the non-ASCII character    *)
(* EN DASH of the copyright line is written "U+2013".  A dict is modelled  *)
(* as a function from its keys to its values.  Values carry their type in  *)
(* the field t.                                                            *)
(***************************************************************************)
EXTENDS Integers, Sequences, FiniteSets

VARIABLES
    phase,   \* "unloaded", "loading", "loaded" or "error" (a statement raised)
    ns,      \* the namespace the file is executed against
    todo,    \* indices of the statements of the running load not yet executed
    loads,   \* number of loads completed
    first    \* history: the namespace as the first load left it

vars == <<phase, ns, todo, loads, first>>

\* How many loads (the first and the reloads) a behaviour may hold.
MaxLoads == 3

(***************************************************************************)
(* Values                                                                  *)
(***************************************************************************)
Unbound == [t |-> "unbound"]

Str(s) == [t |-> "str", v |-> s]

Dict(d) == [t |-> "dict", v |-> d]

\* The dict display with no items: {}
EmptyDict == [k \in {} |-> FALSE]

\* d[k] = v on a dict
DictSet(d, k, v) == [x \in (DOMAIN d) \cup {k} |-> IF x = k THEN v ELSE d[x]]

(***************************************************************************)
(* Expressions and statements.  An expression is a literal, or the         *)
(* concatenation  name + 'literal'  (the file uses only literals; the      *)
(* second form is what a derived setting would read).                      *)
(***************************************************************************)
Lit(val) == [kind |-> "lit", val |-> val]

Cat(name, s) == [kind |-> "cat", name |-> name, val |-> s]

Assign(target, expr) == [target |-> target, expr |-> expr]

\* line 5: source_suffix = '.rst'
Assign_source_suffix == Assign("source_suffix", Lit(Str(<<".", "r", "s", "t">>)))

\* line 6: master_doc = 'index'
Assign_master_doc == Assign("master_doc", Lit(Str(<<"i", "n", "d", "e", "x">>)))

\* line 8: project = u'XTools'
Assign_project == Assign("project", Lit(Str(<<"X", "T", "o", "o", "l", "s">>)))

\* line 11: copyright = u'2008<EN DASH>2020, XTools contributors'
Assign_copyright ==
    Assign("copyright", Lit(Str(
        <<"2", "0", "0", "8", "U+2013", "2", "0", "2", "0", ",", " ",
          "X", "T", "o", "o", "l", "s", " ",
          "c", "o", "n", "t", "r", "i", "b", "u", "t", "o", "r", "s">>)))

\* line 12: version = '3.11'
Assign_version == Assign("version", Lit(Str(<<"3", ".", "1", "1">>)))

\* line 13: release = '3.11.0'
Assign_release == Assign("release", Lit(Str(<<"3", ".", "1", "1", ".", "0">>)))

\* line 17: html_theme = 'sphinx_rtd_theme'
Assign_html_theme ==
    Assign("html_theme", Lit(Str(
        <<"s", "p", "h", "i", "n", "x", "_", "r", "t", "d", "_",
          "t", "h", "e", "m", "e">>)))

\* lines 21-25: html_theme_options = { } (its three items are commented out)
Assign_html_theme_options == Assign("html_theme_options", Lit(Dict(EmptyDict)))

\* The keys of the commented-out items of html_theme_options, lines 22-24.
Key_slidetoc == <<"s", "l", "i", "d", "e", "t", "o", "c">>

Key_enablesidebar == <<"e", "n", "a", "b", "l", "e", "s", "i", "d", "e", "b", "a", "r">>

Key_rightsidebar == <<"r", "i", "g", "h", "t", "s", "i", "d", "e", "b", "a", "r">>

ToggleKeys == {Key_slidetoc, Key_enablesidebar, Key_rightsidebar}

(***************************************************************************)
(* Variants of the file, each one slip away from it.                       *)
(***************************************************************************)
\* copyright typed with an ASCII hyphen instead of the EN DASH
Statements_AsciiHyphen ==
    << Assign_source_suffix, Assign_master_doc, Assign_project,
       Assign("copyright", Lit(Str(
           <<"2", "0", "0", "8", "-", "2", "0", "2", "0", ",", " ",
             "X", "T", "o", "o", "l", "s", " ",
             "c", "o", "n", "t", "r", "i", "b", "u", "t", "o", "r", "s">>))),
       Assign_version, Assign_release, Assign_html_theme,
       Assign_html_theme_options >>

\* line 22 uncommented: 'slidetoc': True
Statements_SlidetocOn ==
    << Assign_source_suffix, Assign_master_doc, Assign_project,
       Assign_copyright, Assign_version, Assign_release, Assign_html_theme,
       Assign("html_theme_options",
              Lit(Dict(DictSet(EmptyDict, Key_slidetoc, TRUE)))) >>

\* the release line deleted
Statements_NoRelease ==
    << Assign_source_suffix, Assign_master_doc, Assign_project,
       Assign_copyright, Assign_version, Assign_html_theme,
       Assign_html_theme_options >>

\* version given as a dict display instead of a str
Statements_VersionAsDict ==
    << Assign_source_suffix, Assign_master_doc, Assign_project,
       Assign_copyright, Assign("version", Lit(Dict(EmptyDict))),
       Assign_release, Assign_html_theme, Assign_html_theme_options >>

\* release derived from version, and written above it: version is read
\* before it is bound
Statements_ReleaseBeforeVersion ==
    << Assign_source_suffix, Assign_master_doc, Assign_project,
       Assign_copyright,
       Assign("release", Cat("version", <<".", "0">>)),
       Assign_version, Assign_html_theme, Assign_html_theme_options >>

\* release = version + '.0' in place of the literal
Statements_DerivedRelease ==
    << Assign_source_suffix, Assign_master_doc, Assign_project,
       Assign_copyright, Assign_version,
       Assign("release", Cat("version", <<".", "0">>)),
       Assign_html_theme, Assign_html_theme_options >>

\* release bumped to 3.11.0 with version left at 3.10
Statements_StaleVersion ==
    << Assign_source_suffix, Assign_master_doc, Assign_project,
       Assign_copyright, Assign("version", Lit(Str(<<"3", ".", "1", "0">>))),
       Assign_release, Assign_html_theme, Assign_html_theme_options >>

(***************************************************************************)
(* The file: its statements in source order.                               *)
(***************************************************************************)
Statements ==
    << Assign_source_suffix, Assign_master_doc, Assign_project,
       Assign_copyright, Assign_version, Assign_release, Assign_html_theme,
       Assign_html_theme_options >>

Targets == {Statements[i].target : i \in DOMAIN Statements}

\* Names of other settings the builder knows and the file does not bind.
OtherNames == {"extensions", "templates_path"}

\* Every name a namespace of the model can hold.
NameUniverse ==
    Targets \cup OtherNames \cup
    {"source_suffix", "master_doc", "project", "copyright", "version",
     "release", "html_theme", "html_theme_options"}

EmptyNs == [n \in NameUniverse |-> Unbound]

BoundNames(env) == {n \in NameUniverse : env[n].t # "unbound"}

(***************************************************************************)
(* Execution of one statement                                              *)
(***************************************************************************)
Raise == [t |-> "raise"]

\* The value of an expression in a namespace, or Raise: a name that is not
\* bound (NameError), or + on a value that is no str (TypeError).
Eval(expr, env) ==
    IF expr.kind = "lit"
    THEN expr.val
    ELSE IF env[expr.name].t = "str"
         THEN Str(env[expr.name].v \o expr.val)
         ELSE Raise

\* A binding that keeps what the name is already bound to.
Bind_KeepExisting(env, name, val) ==
    IF env[name].t = "unbound" THEN [env EXCEPT ![name] = val] ELSE env

\* name = val: the name is bound to the new object, whatever it was bound to.
Bind(env, name, val) == [env EXCEPT ![name] = val]

\* The i-th statement executed against env.
Exec(i, env) ==
    LET s == Statements[i]
        val == Eval(s.expr, env)
    IN  IF val.t = "raise"
        THEN [ok |-> FALSE, env |-> env]
        ELSE [ok |-> TRUE, env |-> Bind(env, s.target, val)]

Min(S) == CHOOSE x \in S : \A y \in S : x <= y

(***************************************************************************)
(* The state machine                                                       *)
(***************************************************************************)
Init ==
    /\ phase = "unloaded"
    /\ ns = EmptyNs
    /\ todo = {}
    /\ loads = 0
    /\ first = EmptyNs

\* The loader starts executing the file: the first load, or a reload.  A
\* reload runs against a new namespace (fresh) or against the namespace of
\* the load before it.
Load(fresh) ==
    /\ phase \in {"unloaded", "loaded"}
    /\ loads < MaxLoads
    /\ phase' = "loading"
    /\ todo' = DOMAIN Statements
    /\ ns' = IF fresh \/ phase = "unloaded" THEN EmptyNs ELSE ns
    /\ UNCHANGED <<loads, first>>

\* What statement i does to the load in progress.
Run(i) ==
    LET r == Exec(i, ns)
    IN  IF ~r.ok
        THEN /\ phase' = "error"
             /\ UNCHANGED <<ns, todo, loads, first>>
        ELSE /\ ns' = r.env
             /\ todo' = todo \ {i}
             /\ IF todo' = {}
                THEN /\ phase' = "loaded"
                     /\ loads' = loads + 1
                     /\ first' = IF loads = 0 THEN r.env ELSE first
                ELSE UNCHANGED <<phase, loads, first>>

\* The interpreter executes the next statement of the file, in source order.
Step ==
    /\ phase = "loading"
    /\ todo # {}
    /\ Run(Min(todo))

\* The builder stores into a dict the load handed it: ns[name][k] = b.
BuilderSetOption(name, k, b) ==
    /\ phase = "loaded"
    /\ ns[name].t = "dict"
    /\ ns' = [ns EXCEPT ![name] = Dict(DictSet(ns[name].v, k, b))]
    /\ UNCHANGED <<phase, todo, loads, first>>

Next ==
    \/ \E fresh \in BOOLEAN : Load(fresh)
    \/ Step
    \/ \E name \in NameUniverse, k \in ToggleKeys, b \in BOOLEAN :
           BuilderSetOption(name, k, b)

Spec == Init /\ [][Next]_vars

\* The interpreter runs the file synchronously: a started load keeps going.
FairSpec == Spec /\ WF_vars(Step)

(***************************************************************************)
(* The statements evaluated in any order, from a namespace that is empty   *)
(* or already holds other values: the specification under which            *)
(* independence of the fields is checked.                                  *)
(***************************************************************************)
\* A namespace in which every name the file binds already holds another str.
StaleNs ==
    [n \in NameUniverse |-> IF n \in Targets THEN Str(<<"x">>) ELSE Unbound]

OrderInit ==
    /\ phase = "loading"
    /\ ns \in {EmptyNs, StaleNs}
    /\ todo = DOMAIN Statements
    /\ loads = 0
    /\ first = EmptyNs

OrderStep ==
    /\ phase = "loading"
    /\ \E i \in todo : Run(i)

OrderNext == OrderStep

OrderSpec == OrderInit /\ [][OrderNext]_vars

\* The namespace the statements leave when run in source order from env.
RECURSIVE RunFrom(_, _)
RunFrom(i, env) ==
    IF i > Len(Statements)
    THEN env
    ELSE LET r == Exec(i, env)
         IN  IF r.ok THEN RunFrom(i + 1, r.env) ELSE env

(***************************************************************************)
(* Properties                                                              *)
(***************************************************************************)
Options == "html_theme_options"

ScalarNames ==
    {"source_suffix", "master_doc", "project", "copyright", "version",
     "release", "html_theme"}

\* The last statement of a load has just been executed.
LoadCompletes == phase = "loading" /\ phase' = "loaded"

IsCharSeq(s) ==
    /\ DOMAIN s = 1..Len(s)
    /\ \A i \in 1..Len(s) : s[i] \in STRING

IsStrValue(val) == val.t = "str" /\ IsCharSeq(val.v)

IsToggleDict(val) ==
    /\ val.t = "dict"
    /\ \A k \in DOMAIN val.v : IsCharSeq(k) /\ val.v[k] \in BOOLEAN

Digits == {"0", "1", "2", "3", "4", "5", "6", "7", "8", "9"}

\* C1: in every loaded state each of the seven scalar fields holds exactly
\* its declared literal: '.rst', 'index', 'XTools',
\* '2008<EN DASH>2020, XTools contributors', '3.11', '3.11.0',
\* 'sphinx_rtd_theme'.
C1_ScalarsHoldLiterals ==
    phase = "loaded" =>
        /\ ns["source_suffix"] = Str(<<".", "r", "s", "t">>)
        /\ ns["master_doc"] = Str(<<"i", "n", "d", "e", "x">>)
        /\ ns["project"] = Str(<<"X", "T", "o", "o", "l", "s">>)
        /\ ns["copyright"] =
               Str(<<"2", "0", "0", "8", "U+2013", "2", "0", "2", "0", ",",
                     " ", "X", "T", "o", "o", "l", "s", " ", "c", "o", "n",
                     "t", "r", "i", "b", "u", "t", "o", "r", "s">>)
        /\ ns["version"] = Str(<<"3", ".", "1", "1">>)
        /\ ns["release"] = Str(<<"3", ".", "1", "1", ".", "0">>)
        /\ ns["html_theme"] =
               Str(<<"s", "p", "h", "i", "n", "x", "_", "r", "t", "d", "_",
                     "t", "h", "e", "m", "e">>)

\* A load has completed and the copyright line is bound to its 30 characters.
C1_Witness ==
    /\ phase = "loaded"
    /\ ns["copyright"].t = "str"
    /\ Len(ns["copyright"].v) = 30

\* C2: loading is idempotent: the namespace every load leaves, the first
\* or any reload (into a new namespace or over the old one, whatever the
\* builder stored in between), equals the namespace the first load left.
C2_LoadIdempotent == [][LoadCompletes => ns' = first']_vars

\* A reload has completed and left what the first load left.
C2_Witness == phase = "loaded" /\ loads >= 2 /\ ns = first

\* C3: in the html_theme_options a load leaves no key maps to True: each
\* toggle key is absent or maps to False.
C3_TogglesDisabled ==
    [][LoadCompletes =>
          /\ ns'[Options].t = "dict"
          /\ \A k \in DOMAIN ns'[Options].v : ns'[Options].v[k] = FALSE]_vars

\* A load has completed and none of the three toggle keys is in the mapping.
C3_Witness ==
    /\ phase = "loaded"
    /\ ns[Options].t = "dict"
    /\ ToggleKeys \cap DOMAIN ns[Options].v = {}

\* C4: the names bound after a load are exactly the eight fields of the
\* data model: none is missing and no other name is bound.
C4_ExactlyEightNames ==
    phase = "loaded" => BoundNames(ns) = ScalarNames \cup {Options}

\* A load has completed and eight names are bound.
C4_Witness == phase = "loaded" /\ Cardinality(BoundNames(ns)) = 8

C6_LoadTerminates ==
    (phase = "loading") ~>
        (/\ phase = "loaded"
         /\ todo = {}
         /\ ScalarNames \cup {Options} \subseteq BoundNames(ns))

\* The first load has completed with nothing left to execute.
C6_Witness == phase = "loaded" /\ loads = 1 /\ todo = {}

\* C7: whatever the order in which the assignments are evaluated and
\* whatever the names held before, no statement raises, and the loaded
\* namespace is the one source order gives from an empty namespace, with
\* the seven scalar fields strs and html_theme_options a mapping from strs
\* to booleans.
C7_FieldsIndependent ==
    /\ phase # "error"
    /\ phase = "loaded" =>
           /\ ns = RunFrom(1, EmptyNs)
           /\ \A n \in ScalarNames : IsStrValue(ns[n])
           /\ IsToggleDict(ns[Options])

\* A load in some order has completed, and every scalar field is a str.
C7_Witness ==
    /\ phase = "loaded"
    /\ todo = {}
    /\ \A n \in ScalarNames : ns[n].t = "str"

\* C8: the loaded release begins with the loaded version, followed by a
\* '.' and a patch component of digits.
C8_VersionPrefixOfRelease ==
    phase = "loaded" =>
        /\ ns["version"].t = "str"
        /\ ns["release"].t = "str"
        /\ LET ver == ns["version"].v
               rel == ns["release"].v
           IN  /\ Len(rel) >= Len(ver) + 2
               /\ SubSeq(rel, 1, Len(ver)) = ver
               /\ rel[Len(ver) + 1] = "."
               /\ \A i \in (Len(ver) + 2)..Len(rel) : rel[i] \in Digits

\* A load has completed and the release is the version and two characters.
C8_Witness ==
    /\ phase = "loaded"
    /\ ns["version"].t = "str"
    /\ ns["release"].t = "str"
    /\ Len(ns["release"].v) = Len(ns["version"].v) + 2

====
